---- MODULE Spec2Model ----
(***************************************************************************)
(* Dataset and MLDataset of src/data/dataset.py: accumulation of the      *)
(* per-symbol batches into one table, the target wrapper, and the two      *)
(* sanitizers.                                                             *)
(*                                                                         *)
(* One object is modelled.  Init is the object just before line 27 is      *)
(* evaluated: data and col_names are None (lines 25-26) and, for an        *)
(* MLDataset, target is None and the wrapper exists (lines 118-119).       *)
(*                                                                         *)
(* Line 27 passes the name stock_callback, which no scope of the module    *)
(* binds, so Dataset.__init__ (and MLDataset.__init__ through super, line  *)
(* 120) raises NameError before _initialize_dataset is entered: the action *)
(* Dataset__init__.  The method _initialize_dataset itself is modelled as  *)
(* written, entered with its declared fifth parameter data_callback: the   *)
(* action initialize_dataset and the loop steps below it.                  *)
(*                                                                         *)
(* The methods are modelled as their bodies read; the text of the module   *)
(* also separates a decorator from its def by a docstring (lines 128-131)  *)
(* and indents one def by five spaces (line 160).                          *)
(*                                                                         *)
(* Tables are arrays of Python objects, as isinstance(val, float) and      *)
(* "val is None" presuppose.  A cell is a string here: the finite floats   *)
(* "1.0", "2.0", ..., the non-finite floats "nan" and "inf", the null      *)
(* "None", and the strings "A", "d1", ... .  An optional value (None or x) *)
(* is <<>> or <<x>>.  A table is the sequence of its rows, indices 1-based.*)
(***************************************************************************)
EXTENDS Integers, Sequences, FiniteSets, TLC

\* ---------------------------------------------------------------- bounds
MaxSymbols == 2
MaxRows == 3
MaxSanitize == 2

\* ---------------------------------------------------------------- values
None == <<>>
Some(x) == <<x>>
IsNone(o) == o = <<>>
Val(o) == o[1]

FiniteFloats == {"1.0", "2.0", "3.0", "5.0", "6.0", "7.0", "10.0", "20.0"}
Floats == FiniteFloats \cup {"nan", "inf"}

\* isinstance(val, float)
isinstance_float(val) == val \in Floats
\* np.isfinite(val), reached for floats only
isfinite(val) == val \in FiniteFloats

\* ---------------------------------------------------------------- inputs
\* Rows get_raw_data may return: two identifier cells, then features.
Rows4 ==
  { <<"A", "d1", "1.0", "2.0">>,
    <<"A", "d2", "3.0", "nan">>,
    <<"5.0", "6.0", "1.0", "2.0">>,
    <<"nan", "7.0", "None", "A">> }

\* Column layouts get_raw_data may return.
ColsOC == <<"symbol", "date", "open", "close">>
ColsCO == <<"symbol", "date", "close", "open">>
ColsC == <<"symbol", "date", "close">>
Layouts == {ColsOC, ColsCO, ColsC}

RowsOf(cols) == {SubSeq(r, 1, Len(cols)) : r \in Rows4}

SeqsUpTo(S, n) == UNION {[1..k -> S] : k \in 0..n}

\* The batches of at most n rows get_raw_data may return.
Batches(n) ==
  UNION {{[cols |-> c, rows |-> rs] : rs \in SeqsUpTo(RowsOf(c), n)} : c \in Layouts}

NoBatch == [cols |-> <<>>, rows |-> <<>>]

SymbolLists ==
  {[k \in 1..n |-> IF k % 2 = 1 THEN "A" ELSE "B"] : n \in 0..MaxSymbols}

\* The user's target functions: one value per row ("ramp", "lastnan",
\* "firstnone"), one value too few ("short"), one too many ("long").
TargetFns == {"ramp", "lastnan", "firstnone", "short", "long"}

Ramp(n) == [j \in 1..n |-> IF j % 2 = 1 THEN "10.0" ELSE "20.0"]

target_function(f, rows) ==
  LET n == Len(rows) IN
  CASE f = "ramp" -> Ramp(n)
    [] f = "lastnan" -> [j \in 1..n |-> IF j = n THEN "nan" ELSE Ramp(n)[j]]
    [] f = "firstnone" -> [j \in 1..n |-> IF j = 1 THEN "None" ELSE Ramp(n)[j]]
    [] f = "short" -> Ramp(IF n = 0 THEN 0 ELSE n - 1)
    [] f = "long" -> Ramp(n + 1)

\* ---------------------------------------------------------------- state
VARIABLES
  cls,              \* "Dataset" or "MLDataset"
  symbols,          \* the symbols argument: None or a list
  data_callback,    \* "None", "cb" (a user callback) or "wrapper" (line 119)
  tf,               \* the target function of an MLDataset, else "None"
  pc,               \* "new", "fetch", "callback", "append", "ready", "error"
  entry,            \* how construction was entered
  i,                \* index of the symbol being processed
  cur,              \* the batch get_raw_data returned for it
  data,             \* self.data
  col_names,        \* self.col_names
  target,           \* self.target
  fetched,          \* history: the batches retrieved, in order
  calls,            \* history: the callback's arguments with the table size then
  nsanitize,        \* history: number of sanitize calls
  err               \* the exception that was raised last, or "none"

vars == <<cls, symbols, data_callback, tf, pc, entry, i, cur, data, col_names,
          target, fetched, calls, nsanitize, err>>

args == <<cls, symbols, data_callback, tf>>

NumRows(d) == IF IsNone(d) THEN 0 ELSE Len(Val(d))

Init ==
  /\ cls \in {"Dataset", "MLDataset"}
  /\ symbols \in {None} \cup {Some(l) : l \in SymbolLists}
  /\ \/ cls = "Dataset" /\ data_callback \in {"None", "cb"} /\ tf = "None"
     \/ cls = "MLDataset" /\ data_callback = "wrapper" /\ tf \in TargetFns
  /\ pc = "new"
  /\ entry = "none"
  /\ i = 0
  /\ cur = NoBatch
  /\ data = None
  /\ col_names = None
  /\ target = None
  /\ fetched = <<>>
  /\ calls = <<>>
  /\ nsanitize = 0
  /\ err = "none"

\* ---------------------------------------------------------------- numpy calls
\* np.vstack((self.data, data)) with the rows of equal width (line 64)
vstack_swapped(a, b) == b \o a
vstack(a, b) == a \o b

\* np.append(self.target, out) on 1-D arrays (line 170)
append_front(t, out) == out \o t
append(t, out) == t \o out

\* np.delete(arr, obj, 0): arr without the rows whose index is in obj, as one
\* batch operation (lines 88, 156, 157).  Indices are 1-based here.
delete_one_by_one(arr, obj) ==
  LET RECURSIVE Go(_, _)
      Go(a, rest) ==
        IF rest = {} THEN a
        ELSE LET m == CHOOSE x \in rest : \A y \in rest : x <= y
                 b == IF m <= Len(a)
                      THEN SubSeq(a, 1, m - 1) \o SubSeq(a, m + 1, Len(a))
                      ELSE a
             IN Go(b, rest \ {m})
  IN Go(arr, obj)
delete(arr, obj) ==
  LET F[k \in 0..Len(arr)] ==
        IF k = 0 THEN <<>>
        ELSE IF k \in obj THEN F[k - 1] ELSE Append(F[k - 1], arr[k])
  IN F[Len(arr)]

\* ---------------------------------------------------------------- sanitizers
\* not isinstance(val, float) or (val is None) or not np.isfinite(val)
BadValue(val) == ~isinstance_float(val) \/ val = "None" \/ ~isfinite(val)

\* Dataset._sanitize, lines 76-85: the rows with a bad value in data[i][2:]
Dataset_delrows_allcols(d) ==
  {r \in 1..Len(d) : \E c \in 1..Len(d[r]) : BadValue(d[r][c])}
Dataset_delrows(d) ==
  {r \in 1..Len(d) : \E c \in 3..Len(d[r]) : BadValue(d[r][c])}

\* MLDataset._sanitize, lines 140-153: the rows with a bad value anywhere in
\* data[i], or with a null or non-finite target[i]
MLDataset_delrows(d, t) ==
  {r \in 1..Len(d) :
     \/ \E c \in 1..Len(d[r]) : BadValue(d[r][c])
     \/ t[r] = "None"
     \/ ~isfinite(t[r])}

\* line 157: self.target = np.delete(self.target, delrows, 0)
sanitize_target_kept(t, delrows) == t
sanitize_target(t, delrows) == delete(t, delrows)

\* MLDataset.training_data, line 126: np.array(self.data[:][2:]).astype(float).
\* data[:] is the whole table and [2:] then drops its first two ROWS; astype
\* raises ValueError on a string cell and turns None into nan.
astype_float(rows) ==
  IF \E r \in 1..Len(rows) : \E c \in 1..Len(rows[r]) :
       ~isinstance_float(rows[r][c]) /\ rows[r][c] # "None"
  THEN [raised |-> "ValueError", value |-> <<>>]
  ELSE [raised |-> "none",
        value |-> [r \in 1..Len(rows) |->
                    [c \in 1..Len(rows[r]) |->
                      IF rows[r][c] = "None" THEN "nan" ELSE rows[r][c]]]]
training_data(d) == astype_float(SubSeq(d, 3, Len(d)))

\* ---------------------------------------------------------------- construction
\* Line 27 as written: the argument stock_callback is an unbound name, so the
\* constructor raises NameError and _initialize_dataset is never called.
Dataset__init__ ==
  /\ pc = "new"
  /\ pc' = "error"
  /\ err' = "NameError"
  /\ entry' = "__init__"
  /\ UNCHANGED <<args, i, cur, data, col_names, target, fetched, calls, nsanitize>>

\* _initialize_dataset entered with data_callback as its fifth argument:
\* lines 51-52, and lines 65-70 (no-ops) when there is nothing to loop over.
initialize_dataset ==
  /\ pc = "new"
  /\ entry' = "_initialize_dataset"
  /\ IF ~IsNone(symbols) /\ Len(Val(symbols)) > 0
     THEN pc' = "fetch" /\ i' = 1
     ELSE pc' = "ready" /\ i' = 0
  /\ UNCHANGED <<args, cur, data, col_names, target, fetched, calls, nsanitize, err>>

\* line 53: data, col_names = get_raw_data(ticker)
get_raw_data ==
  /\ pc = "fetch"
  /\ \E b \in Batches(MaxRows - NumRows(data)) :
       /\ cur' = b
       /\ fetched' = Append(fetched, b)
  /\ pc' = "callback"
  /\ UNCHANGED <<args, entry, i, data, col_names, target, calls, nsanitize, err>>

\* line 53 raising: the retrieval error propagates out of the constructor
get_raw_data_raises ==
  /\ pc = "fetch"
  /\ pc' = "error"
  /\ err' = "RetrievalError"
  /\ UNCHANGED <<args, entry, i, cur, data, col_names, target, fetched, calls, nsanitize>>

\* MLDataset._generate_callback._function, lines 166-170: the new self.target
generate_callback(t, batch) ==
  IF IsNone(t)
  THEN Some(target_function(tf, batch))
  ELSE Some(append(Val(t), target_function(tf, batch)))

\* lines 56-57: if data_callback: data_callback(data)
do_callback ==
  /\ pc = "callback"
  /\ IF data_callback = "None"
     THEN UNCHANGED <<calls, target>>
     ELSE /\ calls' = Append(calls, [batch |-> cur.rows, size |-> NumRows(data)])
          /\ IF data_callback = "wrapper"
             THEN target' = generate_callback(target, cur.rows)
             ELSE UNCHANGED target
  /\ pc' = "append"
  /\ UNCHANGED <<args, entry, i, cur, data, col_names, fetched, nsanitize, err>>

\* end of one loop iteration: the next ticker, or lines 65-70 and return
NextTicker ==
  IF i < Len(Val(symbols))
  THEN pc' = "fetch" /\ i' = i + 1
  ELSE pc' = "ready" /\ i' = i

\* lines 60-62: the first batch becomes the table
append_first ==
  /\ pc = "append"
  /\ IsNone(data)
  /\ data' = Some(cur.rows)
  /\ col_names' = Some(cur.cols)
  /\ NextTicker
  /\ UNCHANGED <<args, entry, cur, target, fetched, calls, nsanitize, err>>

\* lines 63-64: a later batch is stacked beneath the table.  The table has as
\* many columns as col_names has names, both being set from the first batch.
append_vstack ==
  /\ pc = "append"
  /\ ~IsNone(data)
  /\ Len(cur.cols) = Len(Val(col_names))
  /\ data' = Some(vstack(Val(data), cur.rows))
  /\ NextTicker
  /\ UNCHANGED <<args, entry, cur, col_names, target, fetched, calls, nsanitize, err>>

\* line 64 with a batch of another width: np.vstack raises ValueError
append_vstack_raises ==
  /\ pc = "append"
  /\ ~IsNone(data)
  /\ Len(cur.cols) # Len(Val(col_names))
  /\ pc' = "error"
  /\ err' = "ValueError"
  /\ UNCHANGED <<args, entry, i, cur, data, col_names, target, fetched, calls, nsanitize>>

\* ---------------------------------------------------------------- sanitize
\* Dataset._sanitize, lines 72-88.  len(None) raises TypeError.
Dataset_sanitize ==
  /\ pc = "ready"
  /\ cls = "Dataset"
  /\ nsanitize < MaxSanitize
  /\ nsanitize' = nsanitize + 1
  /\ IF IsNone(data)
     THEN err' = "TypeError" /\ UNCHANGED data
     ELSE /\ data' = Some(delete(Val(data), Dataset_delrows(Val(data))))
          /\ err' = "none"
  /\ UNCHANGED <<args, pc, entry, i, cur, col_names, target, fetched, calls>>

\* MLDataset._sanitize, lines 135-157.  len(None) raises TypeError; target[i]
\* raises IndexError when the target is shorter than the table.
MLDataset_sanitize ==
  /\ pc = "ready"
  /\ cls = "MLDataset"
  /\ nsanitize < MaxSanitize
  /\ nsanitize' = nsanitize + 1
  /\ IF IsNone(data)
     THEN err' = "TypeError" /\ UNCHANGED <<data, target>>
     ELSE IF Len(Val(target)) < Len(Val(data))
     THEN err' = "IndexError" /\ UNCHANGED <<data, target>>
     ELSE LET delrows == MLDataset_delrows(Val(data), Val(target)) IN
          /\ data' = Some(delete(Val(data), delrows))
          /\ target' = Some(sanitize_target(Val(target), delrows))
          /\ err' = "none"
  /\ UNCHANGED <<args, pc, entry, i, cur, col_names, fetched, calls>>

Next ==
  \/ Dataset__init__
  \/ initialize_dataset
  \/ get_raw_data
  \/ get_raw_data_raises
  \/ do_callback
  \/ append_first
  \/ append_vstack
  \/ append_vstack_raises
  \/ Dataset_sanitize
  \/ MLDataset_sanitize

Spec == Init /\ [][Next]_vars

\* ---------------------------------------------------------------- vocabulary of the claims
\* A value that is numeric, non-null and finite.
NumericFinite(v) == v \in Floats /\ v # "None" /\ v \notin {"nan", "inf"}

\* Every feature cell (third cell onward) of the row is numeric and finite.
FeatureValid(row) == \A c \in 3..Len(row) : NumericFinite(row[c])

\* s without the positions in S, the rest in order.
Without(s, S) ==
  LET RECURSIVE W(_)
      W(k) == IF k > Len(s) THEN <<>>
              ELSE (IF k \in S THEN <<>> ELSE <<s[k]>>) \o W(k + 1)
  IN W(1)

\* Number of rows retrieved before the k-th batch, and in all.
RECURSIVE Offset(_)
Offset(k) == IF k <= 1 THEN 0 ELSE Offset(k - 1) + Len(fetched[k - 1].rows)
TotalFetched == Offset(Len(fetched) + 1)

\* What the target function returned at the k-th callback; the number of
\* values it returned before that call.
Output(k) == target_function(tf, calls[k].batch)
RECURSIVE TargetOffset(_)
TargetOffset(k) == IF k <= 1 THEN 0 ELSE TargetOffset(k - 1) + Len(Output(k - 1))

\* The target function returned one value per row at every call so far.
OnePerRow == \A k \in 1..Len(calls) : Len(Output(k)) = Len(calls[k].batch)

\* A sanitize call is the step that counts one.
SanitizeStep == pc = "ready" /\ nsanitize' = nsanitize + 1

\* ---------------------------------------------------------------- C1
\* C1: for an MLDataset whose target function returns one value per batch
\* row, the table and the target have the same number of rows once
\* construction has returned and after every sanitize call (data is None
\* exactly when target is None: no batch was retrieved).
C1_Alignment ==
  (cls = "MLDataset" /\ pc = "ready" /\ OnePerRow) =>
    /\ IsNone(data) <=> IsNone(target)
    /\ ~IsNone(data) => Len(Val(data)) = Len(Val(target))

C1_Witness ==
  /\ cls = "MLDataset" /\ pc = "ready" /\ OnePerRow
  /\ nsanitize = 2
  /\ ~IsNone(data) /\ Len(Val(data)) >= 1
  /\ Len(Val(data)) < TotalFetched

C3_MLSanitizeFeaturesOnly ==
  [][(SanitizeStep /\ cls = "MLDataset" /\ ~IsNone(data)
        /\ Len(Val(target)) = Len(Val(data))) =>
       LET removed == {r \in 1..Len(Val(data)) :
                         \/ ~FeatureValid(Val(data)[r])
                         \/ ~NumericFinite(Val(target)[r])}
       IN /\ data' = Some(Without(Val(data), removed))
          /\ target' = Some(Without(Val(target), removed))]_vars

\* ---------------------------------------------------------------- C4
\* C4: a sanitize call that follows a sanitize call changes neither the
\* table nor the target.
C4_SanitizeIdempotent ==
  [][(SanitizeStep /\ nsanitize >= 1) => (data' = data /\ target' = target)]_vars

C4_Witness ==
  /\ pc = "ready" /\ nsanitize = 2 /\ err = "none"
  /\ cls = "MLDataset"
  /\ ~IsNone(data) /\ Len(Val(data)) >= 1
  /\ Len(Val(data)) < TotalFetched

\* ---------------------------------------------------------------- C5
\* C5: when construction over a list of symbols has returned, every symbol
\* has been retrieved, the k-th batch's rows stand in the table right after
\* the rows of the batches before it, and the table has as many rows as the
\* batches together.
C5_AccumulationOrder ==
  (pc = "ready" /\ nsanitize = 0 /\ ~IsNone(symbols) /\ Len(Val(symbols)) >= 1) =>
    /\ Len(fetched) = Len(Val(symbols))
    /\ ~IsNone(data)
    /\ Len(Val(data)) = TotalFetched
    /\ \A k \in 1..Len(fetched) :
         SubSeq(Val(data), Offset(k) + 1, Offset(k) + Len(fetched[k].rows))
           = fetched[k].rows

C5_Witness ==
  /\ pc = "ready" /\ nsanitize = 0
  /\ Len(fetched) = 2
  /\ Len(fetched[1].rows) = 1 /\ Len(fetched[2].rows) = 2
  /\ fetched[1].rows[1] # fetched[2].rows[1]
  /\ fetched[2].rows[1] # fetched[2].rows[2]

\* ---------------------------------------------------------------- C6
\* Construction has ended, and not by a failed retrieval or stacking.
ConstructionEnded ==
  pc = "ready" \/ (pc = "error" /\ err \notin {"RetrievalError", "ValueError"})

\* C6: a Dataset constructed with n symbols and a data callback has invoked
\* the callback exactly n times, the k-th time with the k-th batch alone and
\* before that batch was appended.
C6_CallbackPerSymbol ==
  (cls = "Dataset" /\ data_callback = "cb" /\ ~IsNone(symbols)
     /\ ConstructionEnded /\ nsanitize = 0) =>
    /\ Len(calls) = Len(Val(symbols))
    /\ \A k \in 1..Len(calls) :
         /\ calls[k].batch = fetched[k].rows
         /\ calls[k].size = Offset(k)

\* ---------------------------------------------------------------- C7
\* C7: trainingData of a Ready MLDataset has one row per table row, each
\* the cells of that row from index 2 onward, coerced to float.
C7_TrainingData ==
  (cls = "MLDataset" /\ pc = "ready" /\ ~IsNone(data)) =>
    training_data(Val(data)) =
      astype_float([r \in 1..Len(Val(data)) |->
                      SubSeq(Val(data)[r], 3, Len(Val(data)[r]))])

\* ---------------------------------------------------------------- C8
\* C8: no Ready dataset mixes batches of differing column layout: every
\* batch in it has the column names, in order, of the first.
C8_SchemaChecked ==
  pc = "ready" => \A k \in 1..Len(fetched) : fetched[k].cols = fetched[1].cols

\* ---------------------------------------------------------------- C9
\* C9: MLDataset construction never completes with a target whose length
\* differs from the number of table rows.
C9_AlignmentChecked ==
  (cls = "MLDataset" /\ pc = "ready" /\ nsanitize = 0 /\ ~IsNone(data)) =>
    Len(Val(target)) = Len(Val(data))

\* ---------------------------------------------------------------- C10
\* C10: until the first sanitize call the target is the target function's
\* outputs one after the other in the order of the calls (None before the
\* first call, the first output after it), and when each output has one
\* value per row, target[r] is the value derived for table row r.
C10_TargetConcatenation ==
  (cls = "MLDataset" /\ entry = "_initialize_dataset" /\ nsanitize = 0) =>
    /\ IsNone(target) <=> calls = <<>>
    /\ Len(calls) = 1 => target = Some(Output(1))
    /\ ~IsNone(target) =>
         /\ Len(Val(target)) = TargetOffset(Len(calls) + 1)
         /\ \A k \in 1..Len(calls) :
              SubSeq(Val(target), TargetOffset(k) + 1, TargetOffset(k) + Len(Output(k)))
                = Output(k)
    /\ (pc = "ready" /\ OnePerRow /\ ~IsNone(data)) =>
         \A k \in 1..Len(fetched) : \A j \in 1..Len(fetched[k].rows) :
           /\ Val(data)[Offset(k) + j] = fetched[k].rows[j]
           /\ Val(target)[Offset(k) + j] = target_function(tf, fetched[k].rows)[j]

C10_Witness ==
  /\ cls = "MLDataset" /\ pc = "ready" /\ nsanitize = 0 /\ tf = "lastnan"
  /\ Len(calls) = 2
  /\ Len(calls[1].batch) = 1 /\ Len(calls[2].batch) = 2

====
